---- MODULE Spec2Model ----
(***************************************************************************)
(* The command shell of reason: one input line is tokenized into a chain   *)
(* of segments (parse_command, crate::cmd) and the chain is executed by    *)
(* App::run_command (src/src/app.rs), which resolves each segment's first  *)
(* token to a handler and threads each handler's output into the next.     *)
(*                                                                         *)
(* A token is a sequence of one-character strings, a segment a sequence of *)
(* tokens, a chain a sequence of segments.  The store is a log of the      *)
(* mutations handlers made: a handler that mutates the store appends the   *)
(* index of its stage.                                                     *)
(***************************************************************************)
EXTENDS Integers, Sequences, FiniteSets

VARIABLES
    line,       \* the raw input line given to execute (<<>> under Spec)
    commands,   \* the chain run_command was called with
    idx,        \* position of the `for command in commands` iterator (1-based)
    output,     \* the local `output` of run_command
    store,      \* self.state, the record store
    input,      \* the CommandInput moved into the running handler
    calls,      \* history: every handler invocation, in order
    rets,       \* history: every handler return, in order
    resolved,   \* history: every name given to to_executor, in order
    result,     \* what run_command returned
    pc,         \* "main" | "read" | "execute" | "run" | "handler" | "done" |
                \* "returned"
    argv,       \* std::env::args(): the program name, then the arguments
    reads,      \* how many times main_loop called readline
    execs,      \* how many times main_loop called execute
    log,        \* history: what main_loop's reads and executions came to
    ret         \* what main_loop returned

\* the state of main_loop around one call of execute
loopVars == <<argv, reads, execs, log, ret>>

vars == <<line, commands, idx, output, store, input, calls, rets, resolved,
          result, pc, argv, reads, execs, log, ret>>

----------------------------------------------------------------------------
(* Bounds *)

MaxChainLen == 3
MaxSegLen == 2
MaxLineLen == 5
MaxReads == 2
MaxArgs == 2

----------------------------------------------------------------------------
(* Values *)

SeqsUpTo(S, n) == UNION {[1..k -> S] : k \in 0..n}

\* cmd::CommandOutput: no output, a set of record references, a display string
NoOutput == "None"
CommandOutput == {NoOutput, "Papers", "Message"}

\* error::Fallacy values a handler may fail with
HandlerErrors == {"HandlerError", "ExitReason"}

Ok(v) == [ok |-> TRUE, val |-> v]
Err(e) == [ok |-> FALSE, val |-> e]
NoResult == [ok |-> FALSE, val |-> "pending"]
NoInput == [args |-> <<>>, papers |-> "none"]

InitialStore == <<>>

\* the comment marker
Comment == <<"#">>

\* the command registry: the names to_executor resolves
Registered == {<<"l">>}

\* to_executor(name): Ok(handler of that name) or Err(UnknownCommand)
to_executor(name) ==
    IF name \in Registered THEN Ok(name) ELSE Err("UnknownCommand")

\* CommandInput::from_output(args, output): the stage's tokens and the prior
\* stage's output envelope
from_output(args, out) == [args |-> args, papers |-> out]

----------------------------------------------------------------------------
(* parse_command: the tokenizer.  Its code is in crate::cmd; it is modelled *)
(* from section 4.1 of the specification: one left-to-right scan with one  *)
(* character of lookahead, keeping the chain so far, the segment and the   *)
(* token in progress (inTok: a token is in progress) and the quote mode q. *)
(*   - a backslash followed by a quote appends a quote to the token;       *)
(*   - any other quote toggles q and is appended nowhere;                  *)
(*   - a pipe with q off appends the token in progress, empty or not, ends *)
(*     the segment and starts a new segment and token;                     *)
(*   - whitespace with q off ends the token in progress, the whitespace    *)
(*     that follows is skipped, and a new token begins only if a character *)
(*     other than a pipe follows;                                          *)
(*   - any other character, and a pipe or whitespace with q on, is         *)
(*     appended to the token;                                              *)
(*   - at the end the token in progress, empty or not, and the segment are *)
(*     appended to the chain.                                              *)

IsWhitespace(c) == c = " "

RECURSIVE SkipWhitespace(_, _)
\* first position at or after i that holds no whitespace
SkipWhitespace(s, i) ==
    IF i <= Len(s) /\ IsWhitespace(s[i]) THEN SkipWhitespace(s, i + 1) ELSE i

\* mutant: an empty in-progress token is dropped
CloseTokenNonEmpty(seg, tok, inTok) ==
    IF inTok /\ tok # <<>> THEN Append(seg, tok) ELSE seg

\* the segment with its in-progress token, if there is one, appended
CloseToken(seg, tok, inTok) == IF inTok THEN Append(seg, tok) ELSE seg

\* mutant: a pipe ends the segment whatever the quote mode
PipeAlwaysEndsSegment(q) == TRUE

\* a pipe met in quote mode q ends the segment when quote mode is off
PipeEndsSegment(q) == ~q

\* mutant: an escaped quote toggles quote mode as a plain quote does
EscapedQuoteToggles(q) == ~q

\* the quote mode after an escaped quote met in quote mode q
AfterEscapedQuote(q) == q

\* mutant: a quote left open drops the token and the segment in progress
FinishDropsOpenQuote(chain, seg, tok, inTok, q) ==
    IF q THEN chain ELSE Append(chain, CloseToken(seg, tok, inTok))

\* the chain at the end of input, q being the quote mode there
Finish(chain, seg, tok, inTok, q) == Append(chain, CloseToken(seg, tok, inTok))

RECURSIVE Scan(_, _, _, _, _, _, _)
Scan(s, i, chain, seg, tok, inTok, q) ==
    IF i > Len(s)
    THEN Finish(chain, seg, tok, inTok, q)
    ELSE LET c == s[i] IN
         IF c = "\\" /\ i < Len(s) /\ s[i + 1] = "'"
         THEN Scan(s, i + 2, chain, seg, Append(tok, "'"), TRUE,
                   AfterEscapedQuote(q))
         ELSE IF c = "'"
         THEN Scan(s, i + 1, chain, seg, tok, inTok, ~q)
         ELSE IF c = "|" /\ PipeEndsSegment(q)
         THEN Scan(s, i + 1, Append(chain, CloseToken(seg, tok, inTok)),
                   <<>>, <<>>, TRUE, q)
         ELSE IF IsWhitespace(c) /\ ~q
         THEN LET j == SkipWhitespace(s, i + 1) IN
              Scan(s, j, chain, CloseToken(seg, tok, inTok), <<>>,
                   j <= Len(s) /\ s[j] # "|", q)
         ELSE Scan(s, i + 1, chain, seg, Append(tok, c), TRUE, q)

parse_command(s) == Scan(s, 1, <<>>, <<>>, <<>>, TRUE, FALSE)

----------------------------------------------------------------------------
(* Inputs *)

\* a segment holds no token, or a first token followed by argument tokens
Names == {<<"l">>, <<"x">>, Comment}
Args == {<<"x">>}
Segments ==
    {<<>>} \cup {<<n>> \o a : n \in Names, a \in SeqsUpTo(Args, MaxSegLen - 1)}
Chains == SeqsUpTo(Segments, MaxChainLen)

Chars == {"l", "x", " ", "|", "'", "\\", "#"}
Lines == SeqsUpTo(Chars, MaxLineLen)

----------------------------------------------------------------------------
(* App::run_command *)

\* a segment is rejected as empty when it holds no token
IsEmptyCommand(command) == Len(command) = 0

\* mutant: only a line holding the marker alone is skipped
IsCommentAlone(command) == command = <<Comment>>

\* the single-command branch skips a line whose first token is the marker
IsComment(command) == command[1] = Comment

\* the name a segment's handler is resolved by
CommandName(command) == command[1]

\* mutant: the command name is taken off the arguments
SingleInputNoName(command) == [args |-> Tail(command), papers |-> NoOutput]

\* the input of the only handler of a single-command chain
SingleInput(command) == [args |-> command, papers |-> NoOutput]

\* the input of a stage of a chained command
StageInput(command, out) == from_output(command, out)

\* mutant: the stage's output is dropped and `output` keeps its value
StageOutputStale(old, val) == old

\* the value `output` holds after a stage returned Ok(val)
StageOutput(old, val) == val

\* mutant: a chained command returns no output
ChainResultNone(out) == Ok(NoOutput)

\* the value a chained command returns once every stage has run
ChainResult(out) == Ok(out)

\* to_executor(name)? failed: its error is returned
Unknown(name) ==
    /\ resolved' = Append(resolved, name)
    /\ result' = to_executor(name)
    /\ pc' = "done"
    /\ UNCHANGED <<line, commands, idx, output, store, input, calls, rets>>

\* to_executor(name)? gave a handler, which is called with the input
Invoke(name, in, stage) ==
    /\ resolved' = Append(resolved, name)
    /\ input' = in
    /\ calls' = Append(calls, [stage |-> stage, name |-> to_executor(name).val,
                               args |-> in.args, papers |-> in.papers,
                               before |-> store])
    /\ pc' = "handler"
    /\ UNCHANGED <<line, commands, idx, output, store, rets, result>>

Return(r) ==
    /\ result' = r
    /\ pc' = "done"
    /\ UNCHANGED <<line, commands, idx, output, store, input, calls, rets,
                   resolved>>

\* lines 173-175
RunEmptyChain ==
    /\ pc = "run"
    /\ UNCHANGED loopVars
    /\ Len(commands) = 0
    /\ Return(Ok(NoOutput))

\* lines 177-190: a single command, up to the call of its handler
RunSingle ==
    /\ pc = "run"
    /\ UNCHANGED loopVars
    /\ Len(commands) = 1
    /\ IF IsEmptyCommand(commands[1]) THEN Return(Ok(NoOutput))
       ELSE IF IsComment(commands[1]) THEN Return(Ok(NoOutput))
       ELSE IF ~to_executor(CommandName(commands[1])).ok
            THEN Unknown(CommandName(commands[1]))
       ELSE Invoke(CommandName(commands[1]), SingleInput(commands[1]), 1)

\* mutant: a stage whose name is unknown is skipped and the loop goes on
ChainStageSkipsUnknown ==
    /\ pc = "run"
    /\ UNCHANGED loopVars
    /\ Len(commands) >= 2
    /\ idx <= Len(commands)
    /\ IF IsEmptyCommand(commands[idx]) THEN Return(Err("InvalidCommand"))
       ELSE IF ~to_executor(CommandName(commands[idx])).ok
            THEN /\ resolved' = Append(resolved, CommandName(commands[idx]))
                 /\ idx' = idx + 1
                 /\ UNCHANGED <<line, commands, output, store, input, calls,
                                rets, result, pc>>
       ELSE Invoke(CommandName(commands[idx]),
                   StageInput(commands[idx], output), idx)

\* mutant: every segment is tested for emptiness before the first stage
ChainStageValidatesFirst ==
    /\ pc = "run"
    /\ UNCHANGED loopVars
    /\ Len(commands) >= 2
    /\ idx <= Len(commands)
    /\ IF \E i \in 1..Len(commands) : IsEmptyCommand(commands[i])
       THEN Return(Err("InvalidCommand"))
       ELSE IF ~to_executor(CommandName(commands[idx])).ok
            THEN Unknown(CommandName(commands[idx]))
       ELSE Invoke(CommandName(commands[idx]),
                   StageInput(commands[idx], output), idx)

\* lines 196-208: one iteration of the loop, up to the call of the handler
ChainStage ==
    /\ pc = "run"
    /\ UNCHANGED loopVars
    /\ Len(commands) >= 2
    /\ idx <= Len(commands)
    /\ IF IsEmptyCommand(commands[idx]) THEN Return(Err("InvalidCommand"))
       ELSE IF ~to_executor(CommandName(commands[idx])).ok
            THEN Unknown(CommandName(commands[idx]))
       ELSE Invoke(CommandName(commands[idx]),
                   StageInput(commands[idx], output), idx)

\* line 211: the loop is exhausted
ChainEnd ==
    /\ pc = "run"
    /\ UNCHANGED loopVars
    /\ Len(commands) >= 2
    /\ idx > Len(commands)
    /\ Return(ChainResult(output))

\* the outcomes of one handler run: it may mutate the store, and it returns
\* an output or fails
Mutations(stage) == {store, Append(store, stage)}
Outcomes == {Ok(v) : v \in CommandOutput} \cup {Err(e) : e \in HandlerErrors}

\* line 191: the handler of a single command returns; its result is returned
SingleReturn ==
    /\ pc = "handler"
    /\ UNCHANGED loopVars
    /\ Len(commands) = 1
    /\ \E after \in Mutations(1), r \in Outcomes :
         /\ store' = after
         /\ rets' = Append(rets, [ok |-> r.ok, val |-> r.val, after |-> after])
         /\ result' = r
    /\ input' = NoInput
    /\ pc' = "done"
    /\ UNCHANGED <<line, commands, idx, output, calls, resolved>>

\* mutant: a failed stage is passed over and the loop goes on
StageReturnSkipsFailure ==
    /\ pc = "handler"
    /\ UNCHANGED loopVars
    /\ Len(commands) >= 2
    /\ \E after \in Mutations(idx), r \in Outcomes :
         /\ store' = after
         /\ rets' = Append(rets, [ok |-> r.ok, val |-> r.val, after |-> after])
         /\ output' = IF r.ok THEN StageOutput(output, r.val) ELSE output
    /\ idx' = idx + 1
    /\ pc' = "run"
    /\ input' = NoInput
    /\ UNCHANGED <<line, commands, calls, resolved, result>>

\* mutant: the loop goes on to the next stage while the handler still runs
StageReturnOverlaps ==
    /\ pc = "handler"
    /\ UNCHANGED loopVars
    /\ Len(commands) >= 2
    /\ idx' = idx + 1
    /\ pc' = "run"
    /\ UNCHANGED <<line, commands, output, store, input, calls, rets, resolved,
                   result>>

\* line 209: the handler of a stage returns; `?` returns its error, else its
\* output becomes `output` and the loop goes on
StageReturn ==
    /\ pc = "handler"
    /\ UNCHANGED loopVars
    /\ Len(commands) >= 2
    /\ \E after \in Mutations(idx), r \in Outcomes :
         /\ store' = after
         /\ rets' = Append(rets, [ok |-> r.ok, val |-> r.val, after |-> after])
         /\ IF r.ok
            THEN /\ output' = StageOutput(output, r.val)
                 /\ idx' = idx + 1
                 /\ pc' = "run"
                 /\ result' = result
            ELSE /\ result' = r
                 /\ pc' = "done"
                 /\ UNCHANGED <<output, idx>>
    /\ input' = NoInput
    /\ UNCHANGED <<line, commands, calls, resolved>>

\* lines 162-167: execute tokenizes the line and runs the chain.  The
\* tokenizer of section 4.1 never fails, so the `?` of line 164 never
\* returns; the rendering of the output (line 168) is left out, `result`
\* being what run_command returned.
Execute ==
    /\ pc = "execute"
    /\ UNCHANGED loopVars
    /\ commands' = parse_command(line)
    /\ pc' = "run"
    /\ UNCHANGED <<line, idx, output, store, input, calls, rets, resolved,
                   result>>

----------------------------------------------------------------------------
(* App::main_loop *)

\* the words given on the command line, and the lines the editor may return
ArgWords == {<<"l">>, <<"x">>}
ArgVectors == {<<"reason">> \o a : a \in SeqsUpTo(ArgWords, MaxArgs)}
MainLines == {<<"l">>, <<"x">>, <<"l", "|", "l">>}

RECURSIVE Join(_)
\* args.join(" ")
Join(args) ==
    IF Len(args) = 0 THEN <<>>
    ELSE IF Len(args) = 1 THEN args[1]
    ELSE args[1] \o <<" ">> \o Join(Tail(args))

\* line 99: the process was given arguments
DirectInvocation == Len(argv) > 1

\* the exit sentinel
IsExit(r) == r = Err("ExitReason")

\* what a read or an execution came to, with the state it left
Event(ev, l, r, n) ==
    [ev |-> ev, line |-> l, result |-> r, store |-> store, reads |-> n,
     execs |-> execs]

\* execute is called on a line: run_command's locals are fresh
CallExecute(l) ==
    /\ line' = l
    /\ commands' = <<>>
    /\ idx' = 1
    /\ output' = NoOutput
    /\ input' = NoInput
    /\ calls' = <<>>
    /\ rets' = <<>>
    /\ resolved' = <<>>
    /\ result' = NoResult
    /\ execs' = execs + 1
    /\ pc' = "execute"
    /\ UNCHANGED store

\* main_loop returns Ok(())
ReturnOk ==
    /\ ret' = "Ok"
    /\ pc' = "returned"

\* lines 98-101: direct invocation executes the joined arguments
MainArgs ==
    /\ pc = "main"
    /\ DirectInvocation
    /\ CallExecute(Join(Tail(argv)))
    /\ UNCHANGED <<argv, reads, log, ret>>

\* mutant: a failed direct invocation is returned to the caller
MainArgsReturnPropagates ==
    /\ pc = "done"
    /\ DirectInvocation
    /\ log' = Append(log, Event("line", line, result, reads))
    /\ ret' = IF result.ok \/ IsExit(result) THEN "Ok" ELSE "Err"
    /\ pc' = "returned"
    /\ UNCHANGED <<line, commands, idx, output, store, input, calls, rets,
                   resolved, result, argv, reads, execs>>

\* lines 101-106: whatever execute returned, main_loop returns Ok
MainArgsReturn ==
    /\ pc = "done"
    /\ DirectInvocation
    /\ log' = Append(log, Event("line", line, result, reads))
    /\ ReturnOk
    /\ UNCHANGED <<line, commands, idx, output, store, input, calls, rets,
                   resolved, result, argv, reads, execs>>

\* lines 99, 110: no arguments, the loop is entered
MainLoop ==
    /\ pc = "main"
    /\ ~DirectInvocation
    /\ pc' = "read"
    /\ UNCHANGED <<line, commands, idx, output, store, input, calls, rets,
                   resolved, result, argv, reads, execs, log, ret>>

\* lines 111-113: readline returned a line, which is executed
ReadLine ==
    /\ pc = "read"
    /\ reads < MaxReads
    /\ reads' = reads + 1
    /\ \E l \in MainLines : CallExecute(l)
    /\ UNCHANGED <<argv, log, ret>>

\* mutant: any failed line ends the loop
LoopAfterExecuteStopsOnError ==
    /\ pc = "done"
    /\ ~DirectInvocation
    /\ log' = Append(log, Event("line", line, result, reads))
    /\ IF ~result.ok THEN ReturnOk ELSE pc' = "read" /\ ret' = ret
    /\ UNCHANGED <<line, commands, idx, output, store, input, calls, rets,
                   resolved, result, argv, reads, execs>>

\* lines 113-117: the exit sentinel breaks the loop, any other outcome is
\* printed and the loop goes on
LoopAfterExecute ==
    /\ pc = "done"
    /\ ~DirectInvocation
    /\ log' = Append(log, Event("line", line, result, reads))
    /\ IF IsExit(result) THEN ReturnOk ELSE pc' = "read" /\ ret' = ret
    /\ UNCHANGED <<line, commands, idx, output, store, input, calls, rets,
                   resolved, result, argv, reads, execs>>

\* mutant: an interrupt ends the loop
ReadInterruptedBreaks ==
    /\ pc = "read"
    /\ reads < MaxReads
    /\ reads' = reads + 1
    /\ log' = Append(log, Event("interrupt", <<>>, NoResult, reads + 1))
    /\ ReturnOk
    /\ UNCHANGED <<line, commands, idx, output, store, input, calls, rets,
                   resolved, result, argv, execs>>

\* line 118: readline was interrupted; continue
ReadInterrupted ==
    /\ pc = "read"
    /\ reads < MaxReads
    /\ reads' = reads + 1
    /\ log' = Append(log, Event("interrupt", <<>>, NoResult, reads + 1))
    /\ pc' = "read"
    /\ UNCHANGED <<line, commands, idx, output, store, input, calls, rets,
                   resolved, result, argv, execs, ret>>

\* lines 119, 127: end of file; break
ReadEof ==
    /\ pc = "read"
    /\ reads < MaxReads
    /\ reads' = reads + 1
    /\ log' = Append(log, Event("eof", <<>>, NoResult, reads + 1))
    /\ ReturnOk
    /\ UNCHANGED <<line, commands, idx, output, store, input, calls, rets,
                   resolved, result, argv, execs>>

\* lines 120-123, 127: any other read error; break
ReadError ==
    /\ pc = "read"
    /\ reads < MaxReads
    /\ reads' = reads + 1
    /\ log' = Append(log, Event("error", <<>>, NoResult, reads + 1))
    /\ ReturnOk
    /\ UNCHANGED <<line, commands, idx, output, store, input, calls, rets,
                   resolved, result, argv, execs>>

----------------------------------------------------------------------------
(* Specifications *)

InitCommon ==
    /\ idx = 1
    /\ output = NoOutput
    /\ store = InitialStore
    /\ input = NoInput
    /\ calls = <<>>
    /\ rets = <<>>
    /\ resolved = <<>>
    /\ result = NoResult

\* main_loop is not running
NoMainLoop ==
    /\ argv = <<"reason">>
    /\ reads = 0
    /\ execs = 0
    /\ log = <<>>
    /\ ret = "none"

\* run_command called on a chain
Init ==
    /\ InitCommon
    /\ NoMainLoop
    /\ line = <<>>
    /\ commands \in Chains
    /\ pc = "run"

Next ==
    \/ RunEmptyChain
    \/ RunSingle
    \/ ChainStage
    \/ ChainEnd
    \/ SingleReturn
    \/ StageReturn

Spec == Init /\ [][Next]_vars

\* run_command is straight-line code around a loop and every handler
\* returns: a step that can be taken is taken
SpecTerm == Init /\ [][Next]_vars /\ WF_vars(Next)

\* execute called on a line
InitExec ==
    /\ InitCommon
    /\ NoMainLoop
    /\ line \in Lines
    /\ commands = <<>>
    /\ pc = "execute"

NextExec ==
    \/ Execute
    \/ RunSingle
    \/ ChainStage
    \/ ChainEnd
    \/ SingleReturn
    \/ StageReturn

SpecExec == InitExec /\ [][NextExec]_vars

\* main_loop called by the process
InitMain ==
    /\ InitCommon
    /\ line = <<>>
    /\ commands = <<>>
    /\ argv \in ArgVectors
    /\ reads = 0
    /\ execs = 0
    /\ log = <<>>
    /\ ret = "none"
    /\ pc = "main"

NextMain ==
    \/ MainArgs
    \/ MainArgsReturn
    \/ MainLoop
    \/ ReadLine
    \/ LoopAfterExecute
    \/ ReadInterrupted
    \/ ReadEof
    \/ ReadError
    \/ Execute
    \/ RunSingle
    \/ SingleReturn
    \/ ChainStage
    \/ StageReturn
    \/ ChainEnd

SpecMain == InitMain /\ [][NextMain]_vars

----------------------------------------------------------------------------
(* Properties of run_command *)

Done == pc = "done"
Pipeline == Len(commands) >= 2

\* a segment run_command can invoke: non-empty, with a registered name
Runnable(command) == Len(command) > 0 /\ command[1] \in Registered
AllRunnable == \A i \in 1..Len(commands) : Runnable(commands[i])
HasEmptySegment == \E i \in 1..Len(commands) : Len(commands[i]) = 0

\* the store before each handler call is the store the previous call left
StoreThreaded ==
    \A i \in 1..Len(calls) :
        calls[i].before = IF i = 1 THEN InitialStore ELSE rets[i - 1].after

\* C1: in a chain of two or more non-empty segments with registered names,
\* the i-th handler invoked is that of segment i, with segment i's tokens as
\* args; the first receives no prior output and every later one receives
\* the output the stage before it returned.
C1_StagesInOrderThreadOutput ==
    (Pipeline /\ AllRunnable) =>
        \A i \in 1..Len(calls) :
            /\ calls[i].stage = i
            /\ calls[i].args = commands[i]
            /\ calls[i].papers = IF i = 1 THEN NoOutput ELSE rets[i - 1].val

C1_Witness ==
    /\ Done /\ AllRunnable /\ result.ok
    /\ Len(commands) = 3 /\ Len(calls) = 3
    /\ rets[1].val = "Papers" /\ rets[2].val = "Message"
    /\ calls[2].papers = "Papers" /\ calls[3].papers = "Message"

\* C2: in a chain of two or more stages, a failed handler is the last one
\* invoked; run_command has returned its error as it is, and the store is
\* the store the failing handler left, which it got with the mutations of
\* all stages before it.
C2_FailureAbortsNoRollback ==
    Pipeline =>
        \A k \in 1..Len(rets) :
            ~rets[k].ok =>
                /\ k = Len(rets) /\ k = Len(calls)
                /\ Done
                /\ result = Err(rets[k].val)
                /\ store = rets[k].after
                /\ StoreThreaded

C2_Witness ==
    /\ Done /\ Len(commands) = 3
    /\ Len(calls) = 2 /\ rets[1].ok /\ ~rets[2].ok
    /\ result = Err("HandlerError")
    /\ store = <<1, 2>>

\* C3 (as claimed): in a chain of two or more segments one of which is
\* empty, no handler is ever invoked, the store is unchanged and the run
\* fails with the invalid-chain error.
C3_EmptySegmentRejectedUpFront ==
    (Pipeline /\ HasEmptySegment) =>
        /\ calls = <<>>
        /\ store = InitialStore
        /\ Done => result = Err("InvalidCommand")

----------------------------------------------------------------------------
(* Properties of execute: parse_command, then run_command *)

Parsed == pc # "execute"

NoPipeNoQuote(s) == \A i \in 1..Len(s) : s[i] # "|" /\ s[i] # "'"
AllWhitespace(s) == \A i \in 1..Len(s) : IsWhitespace(s[i])

RECURSIVE WhitespaceSplit(_, _, _)
\* the maximal runs of non-whitespace characters of s from position i on,
\* run being the run in progress
WhitespaceSplit(s, i, run) ==
    IF i > Len(s) THEN (IF run = <<>> THEN <<>> ELSE <<run>>)
    ELSE IF IsWhitespace(s[i])
         THEN (IF run = <<>> THEN <<>> ELSE <<run>>) \o WhitespaceSplit(s, i + 1, <<>>)
         ELSE WhitespaceSplit(s, i + 1, Append(run, s[i]))

\* C4 (as claimed): executing a line that starts with a pipe fails with the
\* chain-structure error, and no handler has been invoked.
C4_LeadingPipeInvalidChain ==
    (Parsed /\ Len(line) > 0 /\ line[1] = "|") =>
        /\ calls = <<>>
        /\ Done => result = Err("InvalidCommand")

RECURSIVE CountMet(_, _, _, _, _)
\* how many times character c is met in s from position i on while quote
\* mode is inQuote; q is the quote mode at i.  An escaped quote is two
\* characters and toggles nothing.
CountMet(s, i, q, c, inQuote) ==
    IF i > Len(s) THEN 0
    ELSE IF s[i] = "\\" /\ i < Len(s) /\ s[i + 1] = "'"
         THEN CountMet(s, i + 2, q, c, inQuote)
    ELSE IF s[i] = "'" THEN CountMet(s, i + 1, ~q, c, inQuote)
    ELSE (IF s[i] = c /\ q = inQuote THEN 1 ELSE 0)
         + CountMet(s, i + 1, q, c, inQuote)

RECURSIVE Occurrences(_, _)
\* how many times character c occurs in token t
Occurrences(t, c) ==
    IF t = <<>> THEN 0
    ELSE (IF Head(t) = c THEN 1 ELSE 0) + Occurrences(Tail(t), c)

RECURSIVE SumOver(_, _)
SumOver(seg, c) ==
    IF seg = <<>> THEN 0 ELSE Occurrences(Head(seg), c) + SumOver(Tail(seg), c)

RECURSIVE InChain(_, _)
\* how many times character c occurs in the tokens of a chain
InChain(chain, c) ==
    IF chain = <<>> THEN 0 ELSE SumOver(Head(chain), c) + InChain(Tail(chain), c)

\* C6: the chain has one segment more than the line has pipes met with
\* quote mode off, and the pipes and whitespace met with quote mode on are
\* exactly the pipes and whitespace found inside the tokens.
C6_SegmentsCountUnquotedPipes ==
    Parsed =>
        /\ Len(commands) = 1 + CountMet(line, 1, FALSE, "|", FALSE)
        /\ InChain(commands, "|") = CountMet(line, 1, FALSE, "|", TRUE)
        /\ InChain(commands, " ") = CountMet(line, 1, FALSE, " ", TRUE)

C6_Witness ==
    /\ Parsed
    /\ line = <<"'", "|", " ", "'", "|">>
    /\ commands = << << <<"|", " ">> >>, << <<>> >> >>

\* C7 (as claimed): executing an empty or all-whitespace line succeeds with
\* no output; no name is resolved, no handler invoked, the store unchanged.
C7_BlankLineNoOutput ==
    (Parsed /\ AllWhitespace(line)) =>
        /\ resolved = <<>>
        /\ calls = <<>>
        /\ store = InitialStore
        /\ Done => result = Ok(NoOutput)

----------------------------------------------------------------------------
(* Properties of run_command, continued *)

Single == Len(commands) = 1
Unregistered(command) == Len(command) > 0 /\ command[1] \notin Registered

\* stage k of a chain is reached: every stage before it returned an output
Reached(k) ==
    /\ Done
    /\ Len(rets) = k - 1
    /\ \A i \in 1..Len(rets) : rets[i].ok

\* in a chain of two or more segments, a stage with an unregistered name
\* is never invoked, nor any stage after it, and the run that reaches it
\* fails with UnknownCommand
UnknownStageStops ==
    Pipeline =>
        \A k \in 1..Len(commands) :
            Unregistered(commands[k]) =>
                /\ \A i \in 1..Len(calls) : calls[i].stage < k
                /\ Reached(k) => result = Err("UnknownCommand")

\* C8 (as claimed): a single segment whose first token is no registered
\* name fails with UnknownCommand, with no handler invoked and the store
\* unchanged; an unregistered stage of a chain stops the run the same way.
C8_UnknownCommandFails ==
    /\ (Single /\ Unregistered(commands[1])) =>
           /\ calls = <<>>
           /\ store = InitialStore
           /\ Done => result = Err("UnknownCommand")
    /\ UnknownStageStops

\* C8 (amended): as claimed, for a single segment whose first token is
\* neither a registered name nor the comment marker.
C8_UnknownCommandFailsAmended ==
    /\ (Single /\ Unregistered(commands[1]) /\ commands[1][1] # Comment) =>
           /\ calls = <<>>
           /\ store = InitialStore
           /\ Done => result = Err("UnknownCommand")
    /\ UnknownStageStops

C8_Witness ==
    /\ Done
    /\ Len(commands) = 3
    /\ Runnable(commands[1]) /\ Runnable(commands[3])
    /\ Len(commands[2]) > 0 /\ commands[2][1] = Comment
    /\ Len(calls) = 1 /\ rets[1].ok
    /\ resolved = <<commands[1][1], Comment>>
    /\ result = Err("UnknownCommand")

\* C9: a single segment whose first token is the comment marker succeeds
\* with no output whatever follows the marker; no name is resolved, no
\* handler invoked, the store unchanged.
C9_CommentNoOutput ==
    (Single /\ Len(commands[1]) > 0 /\ commands[1][1] = Comment) =>
        /\ resolved = <<>>
        /\ calls = <<>>
        /\ store = InitialStore
        /\ Done => result = Ok(NoOutput)

C9_Witness ==
    /\ Done
    /\ commands = << <<Comment, <<"x">> >> >>
    /\ result = Ok(NoOutput)

\* C10: when every segment's handler has returned an output, run_command
\* returns the output of the last segment's handler.
C10_ResultIsLastOutput ==
    (Done /\ Len(commands) >= 1 /\ Len(rets) = Len(commands)
          /\ \A i \in 1..Len(rets) : rets[i].ok) =>
        result = Ok(rets[Len(commands)].val)

C10_Witness ==
    /\ Done
    /\ Len(commands) = 3 /\ Len(rets) = 3
    /\ rets[1].val = "Papers" /\ rets[2].val = NoOutput /\ rets[3].val = "Message"
    /\ result = Ok("Message")

----------------------------------------------------------------------------
(* Properties of run_command: the handler's input, lazy validation *)

\* C12: every handler invocation is given the whole token sequence of its
\* segment as args, and the first of them is the name the handler was
\* resolved by.
C12_ArgsAreWholeSegment ==
    /\ Len(resolved) >= Len(calls)
    /\ \A i \in 1..Len(calls) :
        /\ calls[i].args = commands[calls[i].stage]
        /\ Len(calls[i].args) >= 1
        /\ calls[i].args[1] = calls[i].name
        /\ calls[i].name = resolved[i]

C12_Witness ==
    /\ Done
    /\ commands = << << <<"l">>, <<"x">> >>, << <<"l">> >> >>
    /\ Len(calls) = 2
    /\ calls[1].args = << <<"l">>, <<"x">> >>
    /\ calls[2].args = << <<"l">> >>

\* a segment the loop of run_command fails on
Bad(command) == Len(command) = 0 \/ command[1] \notin Registered
BadError(command) ==
    IF Len(command) = 0 THEN Err("InvalidCommand") ELSE Err("UnknownCommand")

\* C15: in a chain of two or more segments, a run that failed although
\* every invoked handler returned an output failed on segment k, the one
\* after the last returned handler: segment k is empty or unregistered,
\* every segment before it is neither, exactly the handlers of the
\* segments before k were invoked, once each and in order, and the store
\* is the one the last of them left.
C15_ValidationIsPerStage ==
    /\ Len(resolved) <= Len(rets) + 1
    /\ (Pipeline /\ Done /\ ~result.ok /\ \A i \in 1..Len(rets) : rets[i].ok) =>
        LET k == Len(rets) + 1 IN
        /\ k <= Len(commands)
        /\ Bad(commands[k])
        /\ result = BadError(commands[k])
        /\ \A j \in 1..(k - 1) : ~Bad(commands[j])
        /\ Len(calls) = k - 1
        /\ \A i \in 1..Len(calls) : calls[i].stage = i
        /\ StoreThreaded
        /\ store = IF k = 1 THEN InitialStore ELSE rets[k - 1].after

C15_Witness ==
    /\ Done
    /\ Len(commands) = 3 /\ Len(commands[3]) = 0
    /\ Len(calls) = 2 /\ Len(rets) = 2
    /\ store = <<1, 2>>
    /\ result = Err("InvalidCommand")

----------------------------------------------------------------------------
(* Termination and exclusive use of the store *)

\* no more handlers than segments, each segment at most once and in
\* increasing order, a handler called only when every earlier one has
\* returned, the store in the hands of a handler only while it runs
OneHandlerAtATime ==
    /\ Len(calls) <= Len(commands)
    /\ \A i, j \in 1..Len(calls) : i < j => calls[i].stage < calls[j].stage
    /\ Len(calls) = Len(rets) + (IF pc = "handler" THEN 1 ELSE 0)
    /\ (pc = "handler") = (input # NoInput)
    /\ pc = "handler" => store = calls[Len(calls)].before

\* C17: run_command terminates, having invoked at most one handler per
\* segment, in increasing segment order, each one started after the one
\* before it returned, never two at a time.
C17_TerminatesOneHandlerAtATime == []OneHandlerAtATime /\ <>Done

C17_Witness ==
    /\ Done /\ result.ok
    /\ Len(commands) = 3 /\ Len(calls) = 3 /\ Len(rets) = 3
    /\ store = <<1, 2, 3>>

----------------------------------------------------------------------------
(* Properties of parse_command: quotes *)

RECURSIVE EscapedQuotes(_, _)
\* how many escaped quotes (a backslash, then a quote) the scan of s meets
\* from position i on
EscapedQuotes(s, i) ==
    IF i > Len(s) THEN 0
    ELSE IF s[i] = "\\" /\ i < Len(s) /\ s[i + 1] = "'"
         THEN 1 + EscapedQuotes(s, i + 2)
         ELSE EscapedQuotes(s, i + 1)

RECURSIVE QuoteModeAtEnd(_, _, _)
\* the quote mode at the end of s, q being the quote mode at position i
QuoteModeAtEnd(s, i, q) ==
    IF i > Len(s) THEN q
    ELSE IF s[i] = "\\" /\ i < Len(s) /\ s[i + 1] = "'"
         THEN QuoteModeAtEnd(s, i + 2, q)
    ELSE IF s[i] = "'" THEN QuoteModeAtEnd(s, i + 1, ~q)
         ELSE QuoteModeAtEnd(s, i + 1, q)

\* C13: the quotes found in the tokens are exactly the escaped quotes of
\* the line, one for one; the backslash of an escaped quote is in no
\* token; an escaped quote leaves quote mode as it is, so the pipes met in
\* quote mode, counting every plain quote as a toggle and no escaped one,
\* are the pipes found in the tokens.
C13_OnlyEscapedQuotesInTokens ==
    Parsed =>
        /\ InChain(commands, "'") = EscapedQuotes(line, 1)
        /\ InChain(commands, "\\") =
               CountMet(line, 1, FALSE, "\\", FALSE)
             + CountMet(line, 1, FALSE, "\\", TRUE)
        /\ InChain(commands, "|") = CountMet(line, 1, FALSE, "|", TRUE)

C13_Witness ==
    /\ Parsed
    /\ line = <<"'", "\\", "'", "|", "'">>
    /\ commands = << << <<"'", "|">> >> >>

\* C14: every line is tokenized, into a chain of at least one segment; a
\* line that ends in quote mode is tokenized as the same line with the
\* quote closed at its end.  (After a final backslash a closing quote would
\* be an escaped one: such a line is compared with nothing.)
C14_TotalOpenQuoteClosedAtEnd ==
    /\ pc = "execute" => ENABLED Execute
    /\ Parsed =>
        /\ Len(commands) >= 1
        /\ (QuoteModeAtEnd(line, 1, FALSE) /\ line[Len(line)] # "\\") =>
               commands = parse_command(line \o <<"'">>)

C14_Witness ==
    /\ Parsed
    /\ line = <<"l", "|", "'", "x", " ">>
    /\ commands = << << <<"l">> >>, << <<"x", " ">> >> >>

----------------------------------------------------------------------------
(* Properties of main_loop *)

Returned == pc = "returned"
Interactive == ~DirectInvocation

\* the state of the loop before the i-th event of the log
StoreBefore(i) == IF i = 1 THEN InitialStore ELSE log[i - 1].store
ExecsBefore(i) == IF i = 1 THEN 0 ELSE log[i - 1].execs
ReadsBefore(i) == IF i = 1 THEN 0 ELSE log[i - 1].reads

FailedLine(e) == e.ev = "line" /\ ~e.result.ok /\ ~IsExit(e.result)
ExitLine(e) == e.ev = "line" /\ IsExit(e.result)

\* C11: in the interactive loop, a line that failed with anything but the
\* exit sentinel leaves the loop running, its next step a read; a line
\* that yielded the exit sentinel is the last thing the loop did: nothing
\* is read or executed after it and main_loop has returned.
C11_OnlyExitEndsLoop ==
    Interactive =>
        \A i \in 1..Len(log) :
            /\ FailedLine(log[i]) =>
                   /\ ~(i = Len(log) /\ Returned)
                   /\ (i = Len(log)) => (pc = "read" \/ reads > log[i].reads)
                   /\ (i < Len(log)) => log[i + 1].reads = log[i].reads + 1
            /\ ExitLine(log[i]) =>
                   /\ i = Len(log)
                   /\ Returned
                   /\ reads = log[i].reads
                   /\ execs = log[i].execs

C11_Witness ==
    /\ Interactive /\ Returned
    /\ Len(log) = 2
    /\ log[1].line = <<"x">> /\ log[1].result = Err("UnknownCommand")
    /\ log[2].line = <<"l", "|", "l">> /\ ExitLine(log[2])
    /\ execs = 2

\* C16: started with arguments, main_loop executes the arguments joined by
\* single spaces, that one command only, never reads a line, and returns
\* Ok whatever the command came to.
C16_DirectInvocationRunsOnce ==
    DirectInvocation =>
        /\ reads = 0
        /\ execs <= 1
        /\ pc # "read"
        /\ ret \in {"none", "Ok"}
        /\ execs = 1 => line = Join(Tail(argv))
        /\ Returned =>
               /\ ret = "Ok"
               /\ execs = 1
               /\ Len(log) = 1
               /\ log[1].ev = "line"
               /\ log[1].line = Join(Tail(argv))

C16_Witness ==
    /\ Returned
    /\ argv = <<"reason", <<"l">>, <<"x">> >>
    /\ log[1].line = <<"l", " ", "x">>
    /\ log[1].result = Err("HandlerError")
    /\ ret = "Ok"

\* C18: in the interactive loop an interrupt executes nothing, leaves the
\* store as it was and does not end the loop; end of file and any other
\* read error execute nothing and end the loop; main_loop returns Ok and
\* nothing else.
C18_InterruptContinuesEofEnds ==
    /\ ret \in {"none", "Ok"}
    /\ Returned = (ret = "Ok")
    /\ \A i \in 1..Len(log) :
        /\ log[i].ev \in {"interrupt", "eof", "error"} =>
               /\ Interactive
               /\ log[i].store = StoreBefore(i)
               /\ log[i].execs = ExecsBefore(i)
               /\ log[i].reads = ReadsBefore(i) + 1
        /\ log[i].ev = "interrupt" =>
               /\ ~(i = Len(log) /\ Returned)
               /\ (i = Len(log)) => (pc = "read" \/ reads > log[i].reads)
               /\ (i < Len(log)) => log[i + 1].reads = log[i].reads + 1
        /\ log[i].ev \in {"eof", "error"} =>
               /\ i = Len(log)
               /\ Returned
               /\ reads = log[i].reads
               /\ execs = log[i].execs

C18_Witness ==
    /\ Returned /\ ret = "Ok"
    /\ Len(log) = 2
    /\ log[1].ev = "interrupt" /\ log[2].ev = "eof"
    /\ store = InitialStore /\ execs = 0

====
